---- MODULE Spec2Model ----
(***************************************************************************)
(* A model of books.py: the accent-folding table UNACCENTED                *)
(* (UnaccentedMap), the text functions built on it (MakeFtsContent, the    *)
(* query construction of Select) and the Application's search / sort /     *)
(* edit state machine.                                                     *)
(*                                                                         *)
(* A string is a sequence of Unicode codepoints (integers).  A value of    *)
(* the folding table is kept as a string as well: the integer ch that      *)
(* __missing__ stores for a decomposed character is the one-character      *)
(* string str.translate makes of it, and a CHAR_REPLACEMENT entry is the   *)
(* string itself.                                                          *)
(***************************************************************************)
EXTENDS Integers, Sequences, FiniteSets, TLC

VARIABLES
  UNACCENTED,       \* the module-level UnaccentedMap: codepoint -> replacement
  key, ch,          \* the last lookup UNACCENTED[key] and what it returned
  text, content,    \* the argument of the last text function call
  out,              \* ... and its result
  op,               \* which operation ran last
  Books,            \* table Books: id -> <<shelf, author, title, translator,
                    \*   original_title, borrowed>>
  BooksFTS,         \* table BooksFTS: rowid -> content
  search_var,       \* the text of the search box
  last_search_var,  \* None or the raw text of the last query built
  tree_view,        \* the rows displayed, top to bottom
  heading,          \* column -> the reverse its header command sorts with
  clicked_column,   \* the column sorted last
  reverse,          \* ... and its direction
  title,            \* the book count shown in the window title
  dialogs,          \* the open dialogs
  executed,         \* whether the last operation ran the search query
  sqlite_sequence,  \* None, or the largest id Books ever held when its id
                    \*   is declared AUTOINCREMENT
  fts_module,       \* the module BooksFTS is declared with: fts3 or fts4
  callers           \* the threads inside UNACCENTED[key]: thread -> frame

foldvars == <<UNACCENTED, key, ch, text, content, out, op>>

appvars ==
  <<Books, BooksFTS, search_var, last_search_var, tree_view,
    heading, clicked_column, reverse, title, dialogs, executed,
    sqlite_sequence, fts_module>>

vars == <<foldvars, appvars, callers>>

(***************************************************************************)
(* Bounds of the model.                                                    *)
(***************************************************************************)
MaxCached == 2      \* entries the folding table may hold in SpecFold
MaxLen == 4         \* longest raw string drawn in SpecText
MaxBooks == 3       \* largest id table Books reaches in Spec
MaxDialogs == 1     \* dialogs open at the same time in Spec

(***************************************************************************)
(* Strings.                                                                *)
(***************************************************************************)
\* str.isspace() is true: the separators of str.split() without arguments.
WhiteSpace ==
  {9, 10, 11, 12, 13, 28, 29, 30, 31, 32, 133, 160, 5760} \cup (8192..8202)
    \cup {8232, 8233, 8239, 8287, 12288}

IsSpace(c) == c \in WhiteSpace

\* A variant of Split that cuts at every single U+0020, as s.split(' ')
\* does: other whitespace does not separate, and an empty token stands
\* between two adjacent spaces and at the ends.
RECURSIVE SplitAtSpaces(_, _, _)
SplitAtSpaces(s, i, cur) ==
  IF i > Len(s) THEN <<cur>>
  ELSE IF s[i] = 32 THEN <<cur>> \o SplitAtSpaces(s, i + 1, <<>>)
  ELSE SplitAtSpaces(s, i + 1, Append(cur, s[i]))

SplitOnSpace(s) == SplitAtSpaces(s, 1, <<>>)

\* str.split(): the maximal runs of non-whitespace, scanned left to right;
\* cur is the token being collected.
RECURSIVE SplitFrom(_, _, _)
SplitFrom(s, i, cur) ==
  IF i > Len(s)
    THEN (IF cur = <<>> THEN <<>> ELSE <<cur>>)
    ELSE IF IsSpace(s[i])
      THEN (IF cur = <<>> THEN <<>> ELSE <<cur>>) \o SplitFrom(s, i + 1, <<>>)
      ELSE SplitFrom(s, i + 1, Append(cur, s[i]))

Split(s) == SplitFrom(s, 1, <<>>)

\* sep.join(toks)
RECURSIVE Join(_, _)
Join(sep, toks) ==
  IF toks = <<>> THEN <<>>
  ELSE IF Len(toks) = 1 THEN toks[1]
  ELSE toks[1] \o sep \o Join(sep, Tail(toks))

\* All strings over alphabet A of length at most n.
RECURSIVE StringsUpTo(_, _)
StringsUpTo(A, n) ==
  IF n = 0 THEN {<<>>}
  ELSE LET shorter == StringsUpTo(A, n - 1)
       IN shorter \cup {Append(s, c) : s \in shorter, c \in A}

(***************************************************************************)
(* UnaccentedMap.                                                          *)
(***************************************************************************)
CHAR_REPLACEMENT ==
  198 :> <<65, 69>> @@      \* Latin capital letter AE: 'AE'
  230 :> <<97, 101>> @@     \* Latin small letter ae: 'ae'
  208 :> <<68>> @@          \* Latin capital letter Eth: 'D'
  240 :> <<100>> @@         \* Latin small letter eth: 'd'
  216 :> <<79, 69>> @@      \* Latin capital letter O with stroke: 'OE'
  248 :> <<111, 101>> @@    \* Latin small letter o with stroke: 'oe'
  222 :> <<84, 104>> @@     \* Latin capital letter Thorn: 'Th'
  254 :> <<116, 104>> @@    \* Latin small letter thorn: 'th'
  223 :> <<115, 115>> @@    \* Latin small letter sharp s: 'ss'
  272 :> <<68, 106>> @@     \* Latin capital letter D with stroke: 'Dj'
  273 :> <<100, 106>> @@    \* Latin small letter d with stroke: 'dj'
  294 :> <<72>> @@          \* Latin capital letter H with stroke: 'H'
  295 :> <<104>> @@         \* Latin small letter h with stroke: 'h'
  305 :> <<105>> @@         \* Latin small letter dotless i: 'i'
  312 :> <<113>> @@         \* Latin small letter kra: 'q'
  321 :> <<76>> @@          \* Latin capital letter L with stroke: 'L'
  322 :> <<108>> @@         \* Latin small letter l with stroke: 'l'
  330 :> <<78, 103>> @@     \* Latin capital letter Eng: 'Ng'
  331 :> <<110, 103>> @@    \* Latin small letter eng: 'ng'
  338 :> <<79, 69>> @@      \* Latin capital ligature OE: 'OE'
  339 :> <<111, 101>> @@    \* Latin small ligature oe: 'oe'
  358 :> <<84, 104>> @@     \* Latin capital letter T with stroke: 'Th'
  359 :> <<116, 104>>       \* Latin small letter t with stroke: 'th'

\* The ASCII characters of the model: letters that replacements and
\* decompositions lead to, the space and the '*' of the query syntax.
AsciiSample ==
  {32, 42, 65, 69, 73, 85, 97, 98, 101, 115}

\* The strings unicodedata.decomposition() returns for the decomposable
\* characters of the model (Unicode Character Database, field 5).
DecompositionData ==
  233 :> <<48, 48, 54, 53, 32, 48, 51, 48, 49>> @@   \* U+00E9 e acute: "0065 0301"
  261 :> <<48, 48, 54, 49, 32, 48, 51, 50, 56>> @@   \* U+0105 a ogonek: "0061 0328"
  220 :> <<48, 48, 53, 53, 32, 48, 51, 48, 56>> @@   \* U+00DC U diaeresis: "0055 0308"
  471 :> <<48, 48, 68, 67, 32, 48, 51, 48, 49>> @@   \* U+01D7 U diaeresis acute: "00DC 0301"
  508 :> <<48, 48, 67, 54, 32, 48, 51, 48, 49>> @@   \* U+01FC AE acute: "00C6 0301"
  160 :> <<60, 110, 111, 66, 114, 101, 97, 107, 62, 32, 48, 48, 50, 48>> @@
                                                     \* U+00A0 no-break space: "<noBreak> 0020"
  306 :> <<60, 99, 111, 109, 112, 97, 116, 62, 32, 48, 48, 52, 57, 32, 48, 48, 52, 65>> @@
                                                     \* U+0132 ligature IJ: "<compat> 0049 004A"
  170 :> <<60, 115, 117, 112, 101, 114, 62, 32, 48, 48, 54, 49>>
                                                     \* U+00AA feminine ordinal: "<super> 0061"

\* The codepoints of the model: for each of them Decomposition is the
\* string the Unicode database holds.
Codepoints ==
  AsciiSample \cup DOMAIN CHAR_REPLACEMENT \cup DOMAIN DecompositionData

\* unicodedata.decomposition(chr(key)): '' for a character without one.
Decomposition(c) ==
  IF c \in DOMAIN DecompositionData THEN DecompositionData[c] ELSE <<>>

\* The value of one hexadecimal digit, -1 for any other character.
HexDigit(c) ==
  IF c \in 48..57 THEN c - 48
  ELSE IF c \in 65..70 THEN c - 55
  ELSE IF c \in 97..102 THEN c - 87
  ELSE -1

\* int(tok, 16) for a token that str.split() returned (so without
\* whitespace): the number, or -1 where int() raises ValueError.
RECURSIVE HexValue(_, _)
HexValue(tok, acc) ==
  IF tok = <<>> THEN acc
  ELSE IF HexDigit(Head(tok)) < 0 THEN -1
  ELSE HexValue(Tail(tok), 16 * acc + HexDigit(Head(tok)))

\* A variant of ParseHex that reads the token as a decimal number, as
\* int(tok) without the base would.
RECURSIVE DecValue(_, _)
DecValue(tok, acc) ==
  IF tok = <<>> THEN acc
  ELSE IF Head(tok) \notin 48..57 THEN -1
  ELSE DecValue(Tail(tok), 10 * acc + Head(tok) - 48)

ParseDecimal(tok) == IF tok = <<>> THEN -1 ELSE DecValue(tok, 0)

ParseHex(tok) == IF tok = <<>> THEN -1 ELSE HexValue(tok, 0)

\* A variant of Replacement that never consults CHAR_REPLACEMENT.
ReplacementNoOverride(k) ==
  LET de == Decomposition(k)
  IN IF de # <<>>
       THEN LET toks == Split(de)
            IN IF toks = <<>> THEN <<k>>
               ELSE IF ParseHex(toks[1]) < 0 THEN <<k>>
               ELSE <<ParseHex(toks[1])>>
       ELSE <<k>>

\* A variant of Replacement that skips a leading <tag> of the decomposition
\* and takes the first codepoint after it.
ReplacementSkipTag(k) ==
  LET de == Decomposition(k)
  IN IF de # <<>>
       THEN LET toks == Split(de)
                first == IF ParseHex(toks[1]) < 0 /\ Len(toks) > 1
                           THEN toks[2] ELSE toks[1]
            IN IF ParseHex(first) < 0 THEN <<k>> ELSE <<ParseHex(first)>>
       ELSE IF k \in DOMAIN CHAR_REPLACEMENT THEN CHAR_REPLACEMENT[k]
       ELSE <<k>>

\* A variant of Replacement without the except clause of lines 65-66: what
\* int() gives, the failure -1 included, is what the lookup yields.
ReplacementUncaught(k) ==
  LET de == Decomposition(k)
  IN IF de # <<>>
       THEN <<ParseHex(Split(de)[1])>>
       ELSE IF k \in DOMAIN CHAR_REPLACEMENT THEN CHAR_REPLACEMENT[k]
       ELSE <<k>>

\* The value __missing__ computes for key (lines 61-68).
Replacement(k) ==
  LET de == Decomposition(k)
  IN IF de # <<>>
       THEN LET toks == Split(de)
            IN IF toks = <<>> THEN <<k>>                   \* IndexError
               ELSE IF ParseHex(toks[1]) < 0 THEN <<k>>    \* ValueError
               ELSE <<ParseHex(toks[1])>>
       ELSE IF k \in DOMAIN CHAR_REPLACEMENT THEN CHAR_REPLACEMENT[k]
       ELSE <<k>>

\* A variant of Store that appends to the entry the table already holds
\* for the key, where the assignment overwrites it.
StoreAppending(cache, k, v) ==
  [c \in DOMAIN cache \cup {k} |->
     IF c # k THEN cache[c]
     ELSE IF k \in DOMAIN cache THEN cache[k] \o v ELSE v]

\* A variant of Store that keeps only the newest entry.
StoreEvicting(cache, k, v) == [c \in {k} |-> v]

\* self[key] = ch
Store(cache, k, v) ==
  [c \in DOMAIN cache \cup {k} |-> IF c = k THEN v ELSE cache[c]]

\* UnaccentedMap.__missing__(key): the value returned and the table after.
Missing(cache, k) ==
  IF k \in DOMAIN cache
    THEN [ch |-> cache[k], cache |-> cache]
    ELSE [ch |-> Replacement(k), cache |-> Store(cache, k, Replacement(k))]

\* UNACCENTED[key]: dict.__getitem__, which calls __missing__ for an
\* absent key.
GetItem(cache, k) ==
  IF k \in DOMAIN cache
    THEN [ch |-> cache[k], cache |-> cache]
    ELSE Missing(cache, k)

\* s.translate(UNACCENTED): every character looked up in turn, left to
\* right; the result and the table after.
RECURSIVE Translate(_, _)
Translate(s, cache) ==
  IF s = <<>> THEN [out |-> <<>>, cache |-> cache]
  ELSE LET first == GetItem(cache, Head(s))
           rest == Translate(Tail(s), first.cache)
       IN [out |-> first.ch \o rest.out, cache |-> rest.cache]

EmptyMap == [c \in {} |-> <<>>]
NoContent == <<>>

None == <<>>
Some(x) == <<x>>

\* No thread is inside a lookup: the program is single-threaded.
NoCallers == <<>>

\* The process has not constructed an Application: no database, no window.
NoApplication ==
  /\ Books = <<>>
  /\ BooksFTS = <<>>
  /\ search_var = <<>>
  /\ last_search_var = None
  /\ tree_view = <<>>
  /\ heading = <<>>
  /\ clicked_column = ""
  /\ reverse = FALSE
  /\ title = 0
  /\ dialogs = {}
  /\ executed = FALSE
  /\ sqlite_sequence = None
  /\ fts_module = ""

(***************************************************************************)
(* SpecFold: a process that looks codepoints up in UNACCENTED, one at a    *)
(* time or through str.translate, starting from the empty table.           *)
(***************************************************************************)
InitFold ==
  /\ UNACCENTED = EmptyMap
  /\ key = 0
  /\ ch = <<>>
  /\ text = <<>>
  /\ content = NoContent
  /\ out = <<>>
  /\ op = "init"
  /\ NoApplication
  /\ callers = NoCallers

\* UNACCENTED[k] for a key the table holds.
LookupHit(k) ==
  /\ k \in DOMAIN UNACCENTED
  /\ key' = k
  /\ ch' = GetItem(UNACCENTED, k).ch
  /\ UNACCENTED' = GetItem(UNACCENTED, k).cache
  /\ op' = "hit"
  /\ UNCHANGED <<text, content, out, appvars, callers>>

\* UNACCENTED[k] for a key the table does not hold: __missing__ runs.
LookupMiss(k) ==
  /\ k \notin DOMAIN UNACCENTED
  /\ Cardinality(DOMAIN UNACCENTED) < MaxCached
  /\ key' = k
  /\ ch' = GetItem(UNACCENTED, k).ch
  /\ UNACCENTED' = GetItem(UNACCENTED, k).cache
  /\ op' = "miss"
  /\ UNCHANGED <<text, content, out, appvars, callers>>

\* The characters of the strings translated in SpecFold: 'a', e acute,
\* AE acute, AE.
PairAlphabet == {97, 233, 508, 198}

\* c1c2.translate(UNACCENTED) for a two-character string.
TranslatePair(c1, c2) ==
  /\ Cardinality(DOMAIN UNACCENTED \cup {c1, c2}) <= MaxCached
  /\ text' = <<c1, c2>>
  /\ out' = Translate(<<c1, c2>>, UNACCENTED).out
  /\ UNACCENTED' = Translate(<<c1, c2>>, UNACCENTED).cache
  /\ op' = "translate"
  /\ UNCHANGED <<key, ch, content, appvars, callers>>

NextFold ==
  \/ \E k \in Codepoints : LookupHit(k)
  \/ \E k \in Codepoints : LookupMiss(k)
  \/ \E c1, c2 \in PairAlphabet : TranslatePair(c1, c2)

SpecFold == InitFold /\ [][NextFold]_vars

(***************************************************************************)
(* SpecRace: two threads look a codepoint up in the shared UNACCENTED at   *)
(* the same time.  A step is one access to the table or the code between   *)
(* two accesses; the interpreter runs dict.get and the item assignment     *)
(* atomically.                                                             *)
(***************************************************************************)
Callers == {1, 2}

\* The frame of a thread: where it stands (pc), its argument key, its
\* local ch (None before line 58 and after a get that found nothing), and
\* the statement that returned: "getitem" (the table held the key),
\* "get" (line 60) or "store" (line 70).
IdleCaller == [pc |-> "idle", key |-> 0, ch |-> None, via |-> ""]

InitRace ==
  /\ UNACCENTED = EmptyMap
  /\ key = 0
  /\ ch = <<>>
  /\ text = <<>>
  /\ content = NoContent
  /\ out = <<>>
  /\ op = "init"
  /\ NoApplication
  /\ callers = [t \in Callers |-> IdleCaller]

\* Thread t evaluates UNACCENTED[k]: dict.__getitem__ returns the entry of
\* a key the table holds and enters __missing__ otherwise.
CallGetItem(t, k) ==
  /\ callers[t].pc = "idle"
  /\ callers' = [callers EXCEPT ![t] =
       IF k \in DOMAIN UNACCENTED
         THEN [pc |-> "done", key |-> k, ch |-> UNACCENTED[k], via |-> "getitem"]
         ELSE [pc |-> "get", key |-> k, ch |-> None, via |-> ""]]
  /\ UNCHANGED <<foldvars, appvars>>

\* Lines 58-60: ch = self.get(key), returned when it is not None.
MissingGet(t) ==
  /\ callers[t].pc = "get"
  /\ LET c == callers[t]
     IN callers' = [callers EXCEPT ![t] =
          IF c.key \in DOMAIN UNACCENTED
            THEN [c EXCEPT !.pc = "done", !.ch = UNACCENTED[c.key], !.via = "get"]
            ELSE [c EXCEPT !.pc = "compute"]]
  /\ UNCHANGED <<foldvars, appvars>>

\* Lines 61-68: the local ch is computed from the Unicode data.
MissingCompute(t) ==
  /\ callers[t].pc = "compute"
  /\ LET c == callers[t]
     IN callers' = [callers EXCEPT ![t] =
          [c EXCEPT !.pc = "store", !.ch = Replacement(c.key)]]
  /\ UNCHANGED <<foldvars, appvars>>

\* Line 69: self[key] = ch.
MissingStore(t) ==
  /\ callers[t].pc = "store"
  /\ UNACCENTED' = Store(UNACCENTED, callers[t].key, callers[t].ch)
  /\ callers' = [callers EXCEPT ![t] = [@ EXCEPT !.pc = "return"]]
  /\ UNCHANGED <<key, ch, text, content, out, op, appvars>>

\* Line 70: return ch.
MissingReturn(t) ==
  /\ callers[t].pc = "return"
  /\ callers' = [callers EXCEPT ![t] = [@ EXCEPT !.pc = "done", !.via = "store"]]
  /\ UNCHANGED <<foldvars, appvars>>

NextRace ==
  \/ \E t \in Callers, k \in Codepoints : CallGetItem(t, k)
  \/ \E t \in Callers : MissingGet(t)
  \/ \E t \in Callers : MissingCompute(t)
  \/ \E t \in Callers : MissingStore(t)
  \/ \E t \in Callers : MissingReturn(t)

SpecRace == InitRace /\ [][NextRace]_vars

(***************************************************************************)
(* The text functions.                                                     *)
(***************************************************************************)
Column_SHELF == 1
Column_AUTHOR == 2
Column_TITLE == 3
Column_ORIGINAL_TITLE == 5

\* content[a:b] of a Python list (0-based, b exclusive).
Slice(list, a, b) == SubSeq(list, a + 1, b)

NonEmpty(x) == x # <<>>

\* A variant of MakeFtsContent that joins the four fields without dropping
\* the empty ones.
MakeFtsContentKeepEmpty(c, cache) ==
  Translate(
    Join(<<32>>,
         Slice(c, Column_AUTHOR - Column_SHELF,
               Column_ORIGINAL_TITLE + 1 - Column_SHELF)),
    cache)

\* Application.MakeFtsContent(content), content being the six values
\* shelf, author, title, translator, original_title, borrowed: the
\* string returned and the folding table after.
MakeFtsContent(c, cache) ==
  Translate(
    Join(<<32>>,
         SelectSeq(Slice(c, Column_AUTHOR - Column_SHELF,
                         Column_ORIGINAL_TITLE + 1 - Column_SHELF),
                   NonEmpty)),
    cache)

\* [s + '*' for s in toks]
RECURSIVE Starred(_)
Starred(toks) ==
  IF toks = <<>> THEN <<>>
  ELSE <<Head(toks) \o <<42>>>> \o Starred(Tail(toks))

\* A variant of SearchPattern that marks the joined expression with one
\* '*' at its end, where the code marks every token.
SearchPatternStarLast(raw, cache) ==
  Translate(Join(<<32>>, Split(raw)) \o <<42>>, cache)

\* The search_pattern of Select (lines 236-237) for the raw text of the
\* search box: the expression handed to MATCH and the table after.
SearchPattern(raw, cache) ==
  Translate(Join(<<32>>, Starred(Split(raw))), cache)

(***************************************************************************)
(* SpecText: one call of a text function on an argument drawn from the     *)
(* bounded sets below, in a process whose folding table starts empty;      *)
(* a folded text may be folded again.                                      *)
(***************************************************************************)
\* 'a', ' ', '*', sharp s, no-break space, e acute, AE acute
TextAlphabet == {97, 32, 42, 223, 160, 233, 508}

RawStrings == StringsUpTo(TextAlphabet, MaxLen)

\* '', 'a', e acute, 'sharp-s a'
FieldValues == {<<>>, <<97>>, <<233>>, <<223, 32, 97>>}

Contents == [1..6 -> FieldValues]

InitText ==
  /\ UNACCENTED = EmptyMap
  /\ key = 0
  /\ ch = <<>>
  /\ \/ text \in RawStrings /\ content = NoContent
     \/ text = <<>> /\ content \in Contents
  /\ out = <<>>
  /\ op = "init"
  /\ NoApplication
  /\ callers = NoCallers

\* text.translate(UNACCENTED)
FoldTextCall ==
  /\ op = "init"
  /\ content = NoContent
  /\ out' = Translate(text, UNACCENTED).out
  /\ UNACCENTED' = Translate(text, UNACCENTED).cache
  /\ op' = "folded"
  /\ UNCHANGED <<key, ch, text, content, appvars, callers>>

\* The text folded last is folded again.
Refold ==
  /\ op = "folded"
  /\ text' = out
  /\ out' = Translate(out, UNACCENTED).out
  /\ UNACCENTED' = Translate(out, UNACCENTED).cache
  /\ op' = "refolded"
  /\ UNCHANGED <<key, ch, content, appvars, callers>>

\* Select builds the query expression of the raw text and executes it.
BuildQuery ==
  /\ op = "init"
  /\ content = NoContent
  /\ out' = SearchPattern(text, UNACCENTED).out
  /\ UNACCENTED' = SearchPattern(text, UNACCENTED).cache
  /\ op' = "query"
  /\ UNCHANGED <<key, ch, text, content, appvars, callers>>

\* InsertBook / UpdateBook compute the indexed content of a record.
BuildFtsContent ==
  /\ op = "init"
  /\ content # NoContent
  /\ out' = MakeFtsContent(content, UNACCENTED).out
  /\ UNACCENTED' = MakeFtsContent(content, UNACCENTED).cache
  /\ op' = "fts"
  /\ UNCHANGED <<key, ch, text, content, appvars, callers>>

NextText ==
  \/ FoldTextCall
  \/ Refold
  \/ BuildQuery
  \/ BuildFtsContent

SpecText == InitText /\ [][NextText]_vars

(***************************************************************************)
(* The Application.                                                        *)
(*                                                                         *)
(* A row of the tree view is the tuple of its values in the order of the   *)
(* SELECT of Select: <<id, shelf, author, title, borrowed, translator,     *)
(* original_title>>.                                                       *)
(***************************************************************************)
\* The columns whose headers hold a command: DISPLAYED_COLUMNS (lines
\* 110, 146-149), 'ID' among them.
SortColumns == {"ID", "Shelf", "Author", "Title", "Borrowed"}

\* The position of a displayed column among the values of a row
\* (DISPLAYED_COLUMNS, line 110).
ColumnIndex(column) ==
  CASE column = "ID" -> 1
    [] column = "Shelf" -> 2
    [] column = "Author" -> 3
    [] column = "Title" -> 4
    [] column = "Borrowed" -> 5

\* str(n) for a natural number: its decimal digits.
RECURSIVE Str(_)
Str(n) == IF n < 10 THEN <<48 + n>> ELSE Append(Str(n \div 10), 48 + (n % 10))

\* tree_view.set(child, column): the value of the cell as a string.
CellValue(row, column) ==
  IF column = "ID" THEN Str(row[ColumnIndex(column)])
  ELSE row[ColumnIndex(column)]

\* The digits and the lower-case letters of the Polish alphabet in the
\* order of the pl_PL.UTF-8 collation (line 367): the digits stand before
\* the letters.
PolishAlphabet ==
  <<48, 49, 50, 51, 52, 53, 54, 55, 56, 57,
    97, 261, 98, 99, 263, 100, 101, 281, 102, 103, 104, 105, 106, 107, 108,
    322, 109, 110, 324, 111, 243, 112, 113, 114, 115, 347, 116, 117, 118,
    119, 120, 121, 122, 378, 380>>

CollationWeight(c) == CHOOSE i \in 1..Len(PolishAlphabet) : PolishAlphabet[i] = c

\* locale.strxfrm(s) for a string of digits and lower-case Polish letters:
\* the sequence of the characters' collation weights.
Strxfrm(s) == [i \in 1..Len(s) |-> CollationWeight(s[i])]

\* k1 < k2 for two transformed strings (lexicographic order).
RECURSIVE KeyLess(_, _)
KeyLess(k1, k2) ==
  IF k2 = <<>> THEN FALSE
  ELSE IF k1 = <<>> THEN TRUE
  ELSE IF Head(k1) # Head(k2) THEN Head(k1) < Head(k2)
  ELSE KeyLess(Tail(k1), Tail(k2))

\* Whether x must stand before y in the sorted list when y stood before x:
\* only when its key is strictly smaller (strictly greater with reverse).
Precedes(x, y, column, rev) ==
  IF rev
    THEN KeyLess(Strxfrm(CellValue(y, column)), Strxfrm(CellValue(x, column)))
    ELSE KeyLess(Strxfrm(CellValue(x, column)), Strxfrm(CellValue(y, column)))

\* x inserted into the sorted list after every element it does not precede.
RECURSIVE InsertRow(_, _, _, _)
InsertRow(sorted, x, column, rev) ==
  IF sorted = <<>> THEN <<x>>
  ELSE IF Precedes(x, sorted[Len(sorted)], column, rev)
    THEN Append(InsertRow(SubSeq(sorted, 1, Len(sorted) - 1), x, column, rev),
                sorted[Len(sorted)])
    ELSE Append(sorted, x)

RECURSIVE SortFrom(_, _, _, _)
SortFrom(rows, sorted, column, rev) ==
  IF rows = <<>> THEN sorted
  ELSE SortFrom(Tail(rows), InsertRow(sorted, Head(rows), column, rev),
                column, rev)

RECURSIVE Reversed(_)
Reversed(rows) ==
  IF rows = <<>> THEN <<>> ELSE Append(Reversed(Tail(rows)), Head(rows))

\* A variant of SortedRows that sorts ascending and then reverses the list
\* for a descending sort.
SortedRowsReversing(rows, column, rev) ==
  IF rev THEN Reversed(SortFrom(rows, <<>>, column, FALSE))
  ELSE SortFrom(rows, <<>>, column, FALSE)

\* A variant of SortedRows that sorts ascending whatever the direction asked.
SortedRowsAscending(rows, column, rev) == SortFrom(rows, <<>>, column, FALSE)

\* data.sort(key=strxfrm of the cell, reverse=rev) and the moves of lines
\* 356-357: list.sort is stable, with reverse as well.
SortedRows(rows, column, rev) == SortFrom(rows, <<>>, column, rev)

\* Application.SortBy(column, reverse) on the window state w.
SortBy(w, column, rev) ==
  [w EXCEPT !.tree_view = SortedRows(w.tree_view, column, rev),
            !.heading = [w.heading EXCEPT ![column] = ~rev],
            !.clicked_column = column,
            !.reverse = rev]

(***************************************************************************)
(* BooksFTS.content MATCH pattern (lines 239-246), as SQLite evaluates it  *)
(* on an FTS3 or FTS4 table with the one column 'content' and the 'simple' *)
(* tokenizer, in a build with the enhanced query syntax (parentheses, AND, *)
(* OR, NOT, NEAR), the build of the sqlite3 module of Python.  On an FTS5   *)
(* table the empty pattern is a syntax error: the Select of line 163       *)
(* raises in the constructor, and there is no Application whose states     *)
(* could be described.                                                     *)
(***************************************************************************)
\* The modules the table BooksFTS may be declared with.
FtsModules == {"fts3", "fts4"}

\* The characters the tokenizer keeps in a token: ASCII letters and digits,
\* and every non-ASCII character; ASCII letters are folded to lower case.
TokenChar(c) == c \in (48..57) \cup (65..90) \cup (97..122) \/ c >= 128

Lower(c) == IF c \in 65..90 THEN c + 32 ELSE c

\* The whitespace of the query parser.
FtsIsSpace(c) == c \in {9, 10, 11, 12, 13, 32}

\* Where the first token of z[from..to-1] starts (to when there is none),
\* and where the token that starts at s stops.
RECURSIVE FtsTokenStart(_, _, _)
FtsTokenStart(z, from, to) ==
  IF from >= to \/ TokenChar(z[from]) THEN from
  ELSE FtsTokenStart(z, from + 1, to)

RECURSIVE FtsTokenStop(_, _, _)
FtsTokenStop(z, s, to) ==
  IF s >= to \/ ~TokenChar(z[s]) THEN s ELSE FtsTokenStop(z, s + 1, to)

\* The token z[s..e-1]: its word, the position of its first character and
\* the position after its last.
TokenAt(z, s, e) ==
  [word |-> [i \in 1..(e - s) |-> Lower(z[s + i - 1])], start |-> s, stop |-> e]

\* The token that starts at s, None when s is the end to.
TokenFrom(z, s, to) ==
  IF s >= to THEN None ELSE Some(TokenAt(z, s, FtsTokenStop(z, s, to)))

\* The first token of z[from..to-1], None when there is none.
NextToken(z, from, to) == TokenFrom(z, FtsTokenStart(z, from, to), to)

\* The tokens of a quoted phrase z[from..to-1], read from cur on, t being
\* the first of them: a '*' right after a token makes it a prefix, a '^'
\* right before it ties it to the first word of the content.
RECURSIVE PhraseTokens(_, _, _, _)
RECURSIVE PhraseFrom(_, _, _, _)
PhraseFrom(z, from, to, t) ==
  IF t = None THEN <<>>
  ELSE <<[word |-> t[1].word,
          prefix |-> t[1].stop < to /\ z[t[1].stop] = 42,
          first |-> t[1].start > from /\ z[t[1].start - 1] = 94]>>
       \o PhraseTokens(z, from, t[1].stop, to)

PhraseTokens(z, from, cur, to) == PhraseFrom(z, from, to, NextToken(z, cur, to))

\* The words of the tokens of a phrase.
WordsOf(tokens) == [i \in 1..Len(tokens) |-> tokens[i].word]

\* The first position from i on that holds U+0000.
RECURSIVE NulStop(_, _)
NulStop(z, i) == IF i > Len(z) \/ z[i] = 0 THEN i ELSE NulStop(z, i + 1)

\* The text as FTS reads it, a C string: what stands before the first
\* U+0000.
CString(z) == SubSeq(z, 1, NulStop(z, 1) - 1)

\* The words of the C string z.
WordsIn(z) == WordsOf(PhraseTokens(z, 1, 1, Len(z) + 1))

\* The words of an indexed content.
Words(ftscontent) == WordsIn(CString(ftscontent))

\* The first position from i on that holds a quote or a parenthesis.
RECURSIVE SpanStop(_, _)
SpanStop(z, i) ==
  IF i > Len(z) \/ z[i] \in {34, 40, 41} THEN i ELSE SpanStop(z, i + 1)

\* The bare term of the span z[from..i-1], t being its first token; '^'
\* before it counts on an FTS4 table only.  rc is "ok" with a node, "ok"
\* without one (separators only), or "done" (nothing to read: the parse
\* stops here).
TermOf(z, from, i, module, t) ==
  IF t = None
    THEN [rc |-> IF i > from THEN "ok" ELSE "done", node |-> None, pos |-> i]
    ELSE LET prefix == t[1].stop <= Len(z) /\ z[t[1].stop] = 42
             first == /\ module = "fts4"
                      /\ t[1].start > from
                      /\ z[t[1].start - 1] = 94
         IN [rc |-> "ok",
             node |-> Some([type |-> "PHRASE",
                            tokens |-> <<[word |-> t[1].word,
                                          prefix |-> prefix,
                                          first |-> first]>>]),
             pos |-> IF prefix THEN t[1].stop + 1 ELSE t[1].stop]

\* The bare term of the span that ends before i.
TermIn(z, from, i, module) == TermOf(z, from, i, module, NextToken(z, from, i))

\* A bare term read from position from: the first token before the next
\* quote or parenthesis.
GetNextToken(z, from, module) == TermIn(z, from, SpanStop(z, from), module)

\* z holds the string kw at position i.
StartsWith(z, i, kw) ==
  i + Len(kw) - 1 <= Len(z) /\ SubSeq(z, i, i + Len(kw) - 1) = kw

IsDigit(c) == c \in 48..57

RECURSIVE DigitsStop(_, _)
DigitsStop(z, i) ==
  IF i > Len(z) \/ ~IsDigit(z[i]) THEN i ELSE DigitsStop(z, i + 1)

\* The largest value of a C int.
MaxInt32 == 2147483647

\* The number read so far followed by the digit d: -1 once it is past
\* MaxInt32.
ReadDigit(val, d) ==
  IF val = -1 \/ val > (MaxInt32 - d) \div 10 THEN -1 ELSE 10 * val + d

\* The number written in z[i..j-1], -1 when it is past MaxInt32.
RECURSIVE ReadInt(_, _, _)
ReadInt(z, i, j) ==
  IF i >= j THEN 0 ELSE ReadDigit(ReadInt(z, i, j - 1), z[j - 1] - 48)

\* The distance of NEAR without '/n'.
DefaultNear == 10

\* An operator must be followed by whitespace, a quote, a parenthesis or
\* the end.
Followed(z, j) == j > Len(z) \/ FtsIsSpace(z[j]) \/ z[j] \in {34, 40, 41}

\* NEAR/n ending before j: no operator when n is past MaxInt32 (-1).
NearOf(z, j, n) ==
  IF n >= 0 /\ Followed(z, j)
    THEN Some([type |-> "NEAR", near |-> n, pos |-> j])
    ELSE None

\* NEAR/n at position i, its digits ending before j.
NearAt(z, i, j) == NearOf(z, j, ReadInt(z, i + 5, j))

\* The operator written at position i: OR, AND, NOT, NEAR or NEAR/n in
\* capitals.
KeywordAt(z, i) ==
  IF StartsWith(z, i, <<79, 82>>) /\ Followed(z, i + 2)
    THEN Some([type |-> "OR", near |-> DefaultNear, pos |-> i + 2])
  ELSE IF StartsWith(z, i, <<65, 78, 68>>) /\ Followed(z, i + 3)
    THEN Some([type |-> "AND", near |-> DefaultNear, pos |-> i + 3])
  ELSE IF StartsWith(z, i, <<78, 79, 84>>) /\ Followed(z, i + 3)
    THEN Some([type |-> "NOT", near |-> DefaultNear, pos |-> i + 3])
  ELSE IF /\ StartsWith(z, i, <<78, 69, 65, 82, 47>>)
          /\ i + 5 <= Len(z) /\ IsDigit(z[i + 5])
    THEN NearAt(z, i, DigitsStop(z, i + 5))
  ELSE IF StartsWith(z, i, <<78, 69, 65, 82>>) /\ Followed(z, i + 4)
    THEN Some([type |-> "NEAR", near |-> DefaultNear, pos |-> i + 4])
  ELSE None

\* The deepest nesting of parentheses the parser accepts.
MaxNest == 1000

\* The deepest expression tree a query may have.
MaxExprDepth == 12

RECURSIVE SkipSpace(_, _)
SkipSpace(z, i) ==
  IF i > Len(z) \/ ~FtsIsSpace(z[i]) THEN i ELSE SkipSpace(z, i + 1)

RECURSIVE QuoteStop(_, _)
QuoteStop(z, i) == IF i > Len(z) \/ z[i] = 34 THEN i ELSE QuoteStop(z, i + 1)

\* 'content:' in any case, something following it.
ColumnAt(z, i) ==
  /\ i + 7 <= Len(z)
  /\ [k \in 1..7 |-> Lower(z[i + k - 1])] = <<99, 111, 110, 116, 101, 110, 116>>
  /\ z[i + 7] = 58

\* The next node of the expression read from pos, nest parentheses being
\* open: an operator, a quoted phrase, a parenthesised expression (its one
\* operand, or a GROUP of its items), or a bare term, with a column name
\* skipped.  A quote without its closing quote is an error; a closing
\* parenthesis ends the expression it is read in.
RECURSIVE GetNextNode(_, _, _, _)
RECURSIVE NodeAt(_, _, _, _, _)
RECURSIVE NodeOf(_, _, _, _, _, _)
RECURSIVE ExprLoop(_, _, _, _, _, _, _)
RECURSIVE ExprStep(_, _, _, _, _, _)
RECURSIVE ExprItem(_, _, _, _, _, _, _)
\* The phrase quoted from i to j, an error when j is past the end.
QuotedNode(z, i, j, nest) ==
  IF j > Len(z)
    THEN [rc |-> "error", node |-> None, pos |-> j, nest |-> nest]
    ELSE [rc |-> "ok",
          node |-> Some([type |-> "PHRASE",
                         tokens |-> PhraseTokens(z, i + 1, i + 1, j)]),
          pos |-> j + 1, nest |-> nest]

\* The node of a parenthesised expression sub.
GroupNode(sub) ==
  [rc |-> sub.rc,
   node |-> IF sub.rc # "ok" \/ sub.items = <<>> THEN None
            ELSE IF Len(sub.items) = 1 THEN Some(sub.items[1])
            ELSE Some([type |-> "GROUP", items |-> sub.items]),
   pos |-> sub.pos, nest |-> sub.nest]

\* The node of a bare term t.
TermNode(t, nest) == [rc |-> t.rc, node |-> t.node, pos |-> t.pos, nest |-> nest]

\* The node at i, no whitespace, keyword being the operator written there.
NodeOf(z, pos, i, nest, module, keyword) ==
  IF keyword # None
    THEN [rc |-> "ok",
          node |-> Some([type |-> keyword[1].type, near |-> keyword[1].near]),
          pos |-> keyword[1].pos, nest |-> nest]
  ELSE IF z[i] = 34 THEN QuotedNode(z, i, QuoteStop(z, i + 1), nest)
  ELSE IF z[i] = 40
    THEN IF nest + 1 > MaxNest
           THEN [rc |-> "error", node |-> None, pos |-> i, nest |-> nest]
           ELSE GroupNode(ExprLoop(z, i + 1, nest + 1, module, <<>>, TRUE, ""))
  ELSE IF z[i] = 41
    THEN [rc |-> "done", node |-> None, pos |-> i + 1, nest |-> nest - 1]
  ELSE TermNode(GetNextToken(z, IF ColumnAt(z, i) THEN i + 8 ELSE pos, module),
                nest)

\* The node read from pos, i being the first position without whitespace.
NodeAt(z, pos, i, nest, module) ==
  IF i > Len(z) THEN [rc |-> "done", node |-> None, pos |-> i, nest |-> nest]
  ELSE NodeOf(z, pos, i, nest, module, KeywordAt(z, i))

GetNextNode(z, pos, nest, module) ==
  NodeAt(z, pos, SkipSpace(z, pos), nest, module)

\* The expression read from pos up to its end or its closing parenthesis:
\* items holds its operands and operators in turn, an AND put between two
\* operands that follow each other; require tells that an operand must
\* come next, prev is the type of the last item.  An operator where an
\* operand must stand, an expression that ends with an operator, and a
\* NEAR beside a parenthesised expression are errors.
ExprLoop(z, pos, nest, module, items, require, prev) ==
  ExprStep(z, module, items, require, prev, GetNextNode(z, pos, nest, module))

\* The step of the loop on the node read r.
ExprStep(z, module, items, require, prev, r) ==
  IF r.rc = "ok" /\ r.node = None
    THEN ExprLoop(z, r.pos, r.nest, module, items, require, prev)
  ELSE IF r.rc = "ok"
    THEN ExprItem(z, module, items, require, prev, r, r.node[1])
  ELSE IF r.rc = "done" /\ ~(items # <<>> /\ require)
    THEN [rc |-> "ok", items |-> items, pos |-> r.pos, nest |-> r.nest]
  ELSE [rc |-> "error", items |-> <<>>, pos |-> r.pos, nest |-> r.nest]

\* The step of the loop on the operand or operator p of the node read r.
ExprItem(z, module, items, require, prev, r, p) ==
  LET operand == p.type \in {"PHRASE", "GROUP"}
      implicit == operand /\ ~require
      before == IF implicit THEN "AND" ELSE prev
  IN IF \/ ~operand /\ require
        \/ p.type = "NEAR" /\ before # "PHRASE"
        \/ p.type = "GROUP" /\ before = "NEAR"
       THEN [rc |-> "error", items |-> <<>>, pos |-> r.pos, nest |-> r.nest]
     ELSE ExprLoop(z, r.pos, r.nest, module,
                   (IF implicit
                      THEN Append(items, [type |-> "AND", near |-> DefaultNear])
                      ELSE items) \o <<p>>,
                   ~operand, p.type)

\* The last operator of the given type among items, 0 when there is none.
LastIndex(items, type) ==
  LET found == {i \in 1..Len(items) : items[i].type = type}
  IN IF found = {} THEN 0 ELSE CHOOSE i \in found : \A j \in found : j <= i

\* The items of an expression, the parentheses around a whole expression
\* taken off.
RECURSIVE Unwrap(_)
Unwrap(items) ==
  IF Len(items) = 1 /\ items[1].type = "GROUP"
    THEN Unwrap(items[1].items)
    ELSE items

\* The operator at the root of the tree of an expression: the one that
\* binds least, "PHRASE" for a single phrase.
RootType(items) ==
  IF LastIndex(items, "OR") > 0 THEN "OR"
  ELSE IF LastIndex(items, "AND") > 0 THEN "AND"
  ELSE IF LastIndex(items, "NOT") > 0 THEN "NOT"
  ELSE IF Len(items) = 1 THEN "PHRASE"
  ELSE "NEAR"

\* The operands of the chain of operators of one type, AND or OR, at the
\* root of an expression, from left to right; parentheses do not end the
\* chain.
RECURSIVE Leaves(_, _)
RECURSIVE LeavesOf(_, _)
LeavesOf(u, type) ==
  IF RootType(u) # type THEN <<u>>
  ELSE Leaves(SubSeq(u, 1, LastIndex(u, type) - 1), type)
       \o Leaves(SubSeq(u, LastIndex(u, type) + 1, Len(u)), type)

Leaves(items, type) == LeavesOf(Unwrap(items), type)

Max(a, b) == IF a >= b THEN a ELSE b

\* A subtree of height p is put into the slots ap of the balanced tree, -1
\* marking a free slot: slot lvl holds a tree of 2^(lvl-1) operands, and
\* two trees of one slot are joined into one of the next.  over tells
\* that no slot was left.
RECURSIVE Carry(_, _, _)
Carry(ap, lvl, p) ==
  IF lvl > Len(ap) THEN [ap |-> ap, over |-> TRUE]
  ELSE IF ap[lvl] = -1 THEN [ap |-> [ap EXCEPT ![lvl] = p], over |-> FALSE]
  ELSE Carry([ap EXCEPT ![lvl] = -1], lvl + 1, 1 + Max(ap[lvl], p))

\* The height of the tree that joins the trees of the slots from lvl on to
\* the tree of height p (-1: none yet).
RECURSIVE Collect(_, _, _)
Collect(ap, lvl, p) ==
  IF lvl > Len(ap) THEN p
  ELSE Collect(ap, lvl + 1,
               IF ap[lvl] = -1 THEN p
               ELSE IF p = -1 THEN ap[lvl]
               ELSE 1 + Max(ap[lvl], p))

\* The height of the tree of an expression once its chains of AND and of OR
\* are balanced, n levels being allowed; -1 when they do not suffice.  The
\* operands of a NOT are balanced with one level less; a chain of NEAR is
\* left as it is, one level for each NEAR.
RECURSIVE Balance(_, _)
RECURSIVE BalanceAs(_, _, _)
RECURSIVE Gather(_, _, _, _)
RECURSIVE GatherLeaf(_, _, _, _, _)
RECURSIVE GatherNext(_, _, _, _)
\* The height of a NOT over operands of heights l and r.
NotHeight(l, r) == IF l = -1 \/ r = -1 THEN -1 ELSE 1 + Max(l, r)

BalanceAs(u, n, type) ==
  IF type \in {"AND", "OR"}
    THEN Gather(Leaves(u, type), 1, [lvl \in 1..n |-> -1], n)
  ELSE IF type = "NOT"
    THEN NotHeight(Balance(SubSeq(u, 1, LastIndex(u, "NOT") - 1), n - 1),
                   Balance(SubSeq(u, LastIndex(u, "NOT") + 1, Len(u)), n - 1))
  ELSE (Len(u) - 1) \div 2

Balance(items, n) ==
  IF n = 0 THEN -1 ELSE BalanceAs(Unwrap(items), n, RootType(Unwrap(items)))

\* The operands from the k-th on are put into the slots ap.
Gather(leaves, k, ap, n) ==
  IF k > Len(leaves) THEN Collect(ap, 1, -1)
  ELSE GatherLeaf(leaves, k, ap, n, Balance(leaves[k], n - 1))

\* The k-th operand, of height p once balanced, is put into the slots.
GatherLeaf(leaves, k, ap, n, p) ==
  IF p = -1 THEN -1 ELSE GatherNext(leaves, k, Carry(ap, 1, p), n)

GatherNext(leaves, k, c, n) ==
  IF c.over THEN -1 ELSE Gather(leaves, k + 1, c.ap, n)

\* The tree of height h (-1: it could not be balanced) is too large.
DepthFails(h) == h = -1 \/ h > MaxExprDepth

\* The tree of an expression is deeper than MaxExprDepth.
TooDeep(items) == items # <<>> /\ DepthFails(Balance(items, MaxExprDepth))

\* The expression of a parse q: None when cursor.execute raises (an error
\* of the parse, parentheses that do not balance, a tree too deep), or
\* its items.
Parsed(q) ==
  IF q.rc = "ok" /\ q.nest = 0 /\ ~TooDeep(q.items) THEN Some(q.items) ELSE None

\* The text can be encoded in UTF-8: it holds no surrogate.
Encodable(z) == \A i \in 1..Len(z) : z[i] \notin 55296..57343

\* The expression of the C string z.
ParseCString(z, module) == Parsed(ExprLoop(z, 1, 0, module, <<>>, TRUE, ""))

\* The expression of a pattern, None when cursor.execute raises; a pattern
\* that cannot be encoded is not bound to the statement.
ParseQuery(pattern, module) ==
  IF Encodable(pattern) THEN ParseCString(CString(pattern), module) ELSE None

\* cursor.execute raises: OperationalError (malformed MATCH expression, FTS
\* expression tree is too large) or UnicodeEncodeError.
Malformed(pattern, module) == ParseQuery(pattern, module) = None

IsPrefix(p, word) == Len(p) <= Len(word) /\ SubSeq(word, 1, Len(p)) = p

\* A query term matches a word of the content: a prefix term one it is a
\* prefix of, any other term the word equal to it.
TermMatches(term, word) ==
  IF term.prefix THEN IsPrefix(term.word, word) ELSE term.word = word

\* The positions in words at which an occurrence of the phrase ends; a
\* phrase without a token occurs nowhere.
PhraseEnds(phrase, words) ==
  LET k == Len(phrase.tokens)
  IN IF k = 0 THEN {}
     ELSE {s + k - 1 : s \in
             {x \in 1..(Len(words) - k + 1) :
                \A i \in 1..k :
                  /\ TermMatches(phrase.tokens[i], words[x + i - 1])
                  /\ phrase.tokens[i].first => x + i - 1 = 1}}

\* a + b in the arithmetic of a C int, for a and b from 0 to MaxInt32: a
\* sum past MaxInt32 wraps to a negative number.
AddInt32(a, b) ==
  IF a > MaxInt32 - b THEN (a - MaxInt32) + (b - MaxInt32) - 2 ELSE a + b

\* The positions among ends that lie after a position of cur by at most
\* right, or before one by at most left.
NearWithin(ends, cur, right, left) ==
  {y \in ends : \E x \in cur : y - x \in 1..right \/ x - y \in 1..left}

\* The occurrences among ends, of a phrase of nq tokens, that are near an
\* occurrence in cur of the phrase before, of ntok tokens: they end at
\* different positions and at most near words lie between them.  The
\* two distances are sums of C ints: with near close to MaxInt32 they wrap
\* and no occurrence is near.
NearEnds(ends, cur, near, nq, ntok) ==
  NearWithin(ends, cur, AddInt32(near, nq), AddInt32(near, ntok))

\* phrase NEAR phrase NEAR ..., from item i on: cur holds where the
\* occurrences of the phrase before, of ntok tokens, end that are near
\* enough to the phrases before it.
RECURSIVE NearChain(_, _, _, _, _)
NearChain(items, i, cur, ntok, words) ==
  IF i > Len(items) THEN cur # {}
  ELSE NearChain(items, i + 2,
                 NearEnds(PhraseEnds(items[i + 1], words), cur, items[i].near,
                          Len(items[i + 1].tokens), ntok),
                 Len(items[i + 1].tokens), words)

\* Whether the expression holds of the words of a content: OR binds least,
\* then AND, then NOT, then NEAR; operators of one type group to the left.
RECURSIVE Evaluate(_, _)
RECURSIVE EvaluateAt(_, _, _, _, _)
EvaluateAt(items, words, or, and, not) ==
  LET Left(i) == Evaluate(SubSeq(items, 1, i - 1), words)
      Right(i) == Evaluate(SubSeq(items, i + 1, Len(items)), words)
  IN IF items = <<>> THEN FALSE
     ELSE IF or > 0 THEN Left(or) \/ Right(or)
     ELSE IF and > 0 THEN Left(and) /\ Right(and)
     ELSE IF not > 0 THEN Left(not) /\ ~Right(not)
     ELSE IF Len(items) = 1 /\ items[1].type = "GROUP"
       THEN Evaluate(items[1].items, words)
     ELSE NearChain(items, 2, PhraseEnds(items[1], words),
                    Len(items[1].tokens), words)

Evaluate(items, words) ==
  EvaluateAt(items, words, LastIndex(items, "OR"), LastIndex(items, "AND"),
             LastIndex(items, "NOT"))

\* The outcome of the query q for one row.
MatchOf(q, ftscontent) ==
  IF q = None THEN "error"
  ELSE IF Evaluate(q[1], Words(ftscontent)) THEN "match"
  ELSE "no match"

\* BooksFTS.content MATCH pattern for one row: "error" when the pattern is
\* malformed (the query raises whatever the table holds), or whether the
\* row is selected.  A pattern without a term, the empty one among them,
\* selects no row.
Match(ftscontent, pattern, module) ==
  MatchOf(ParseQuery(pattern, module), ftscontent)

\* The rows SELECT ... JOIN ... MATCH returns for ids from..MaxBooks, by
\* ascending id, q being the expression of the pattern: id, shelf,
\* author, title, borrowed, translator, original_title.
RECURSIVE FetchFrom(_, _, _, _)
FetchFrom(books, fts, q, id) ==
  IF id > MaxBooks THEN <<>>
  ELSE (IF /\ id \in DOMAIN books /\ id \in DOMAIN fts
           /\ MatchOf(q, fts[id]) = "match"
          THEN <<<<id, books[id][1], books[id][2], books[id][3], books[id][6],
                   books[id][4], books[id][5]>>>>
          ELSE <<>>)
       \o FetchFrom(books, fts, q, id + 1)

\* A variant of UnchangedText that never finds the text unchanged.
NeverUnchanged(sv, last) == FALSE

\* self.search_var.get() == self.last_search_var
UnchangedText(sv, last) == Some(sv) = last

\* A variant of ShowRows that leaves the rows in the order the query
\* returned them.
ShowRowsUnsorted(w, parsed, books, fts) ==
  IF parsed = None
    THEN [w EXCEPT !.raised = TRUE]
    ELSE [w EXCEPT !.tree_view = FetchFrom(books, fts, parsed, 1),
                   !.raised = FALSE]

\* cursor.execute of the pattern whose parse is parsed, and what follows
\* it (lines 239-251): when it raises, nothing after it runs, and the rows
\* stay; else the rows are replaced by those fetched and sorted by SortBy.
ShowRows(w, parsed, books, fts) ==
  IF parsed = None
    THEN [w EXCEPT !.raised = TRUE]
    ELSE SortBy([w EXCEPT !.tree_view = FetchFrom(books, fts, parsed, 1),
                          !.raised = FALSE],
                w.clicked_column, w.reverse)

\* Application.Select() on the window state w, with the text sv of the
\* search box, the two tables and the module of BooksFTS.  The memo is set
\* and the pattern built before the query is executed (lines 235-237).
Select(w, sv, books, fts, module) ==
  IF UnchangedText(sv, w.last_search_var)
    THEN [w EXCEPT !.executed = FALSE, !.raised = FALSE]
    ELSE LET q == SearchPattern(sv, w.cache)
         IN ShowRows([w EXCEPT !.last_search_var = Some(sv),
                               !.cache = q.cache,
                               !.executed = TRUE],
                     ParseQuery(q.out, module), books, fts)

\* A variant of Finalize that leaves last_search_var as it is.
FinalizeKeepMemo(w, sv, books, fts, module) == Select(w, sv, books, fts, module)

\* Application.Finalize(dialog), the dialog apart: the memo is reset and
\* Select runs on the committed tables.
Finalize(w, sv, books, fts, module) ==
  Select([w EXCEPT !.last_search_var = None], sv, books, fts, module)

\* The Select of Finalize raises: the pattern of the text in the search box
\* is malformed.
Raises(sv, cache, module) == Malformed(SearchPattern(sv, cache).out, module)

\* The window state as a record, and the variables set from one.
Window ==
  [last_search_var |-> last_search_var, tree_view |-> tree_view,
   heading |-> heading,
   clicked_column |-> clicked_column, reverse |-> reverse,
   cache |-> UNACCENTED, executed |-> executed, raised |-> FALSE]

\* The window of the constructed Application is w.
WindowIs(w) ==
  /\ last_search_var = w.last_search_var
  /\ tree_view = w.tree_view
  /\ heading = w.heading
  /\ clicked_column = w.clicked_column
  /\ reverse = w.reverse
  /\ UNACCENTED = w.cache
  /\ executed = w.executed

SetWindow(w) ==
  /\ last_search_var' = w.last_search_var
  /\ tree_view' = w.tree_view
  /\ heading' = w.heading
  /\ clicked_column' = w.clicked_column
  /\ reverse' = w.reverse
  /\ UNACCENTED' = w.cache
  /\ executed' = w.executed

\* ' '.join(x.strip().split()) for every entry (lines 259-261).
Normalized(entries) == [i \in 1..Len(entries) |-> Join(<<32>>, Split(entries[i]))]

\* The check of the required entries, shelf, author and title (lines
\* 255-257, 290-292).
RequiredFilled(entries) ==
  \A column \in {Column_SHELF, Column_AUTHOR, Column_TITLE} : entries[column] # <<>>

\* The largest id of a Books table, 0 for an empty one.
MaxId(books) ==
  IF DOMAIN books = {} THEN 0
  ELSE CHOOSE m \in DOMAIN books : \A i \in DOMAIN books : i <= m

\* cursor.lastrowid after the INSERT into Books (lines 262-273): the id
\* SQLite gives the row is one more than the largest id in the table, or,
\* with an id declared AUTOINCREMENT, one more than the largest id the
\* table ever held.
NewId(books, seq) ==
  IF seq = None \/ seq[1] < MaxId(books) THEN 1 + MaxId(books) ELSE 1 + seq[1]

\* The texts the user gives the search box: '', 'a', 'b', '"a' (its
\* pattern '"a*' is malformed) and '^a' (the first word starts with 'a',
\* on an FTS4 table).
SearchTexts == {<<>>, <<97>>, <<98>>, <<34, 97>>, <<94, 97>>}

\* The texts typed and the headers clicked in Spec (the rows start sorted by
\* author, so that two columns are sorted by).
TypedTexts == {<<>>, <<97>>}

\* The texts typed in SpecRaise: 'a', and '"a', whose pattern '"a*' is
\* malformed.
RaisingTexts == {<<97>>, <<34, 97>>}

ClickedColumns == {"ID"}

\* What the user leaves in the entries of a dialog: a complete record with
\* a translator to normalize, and one without an author.
InputRecords ==
  {<<<<97>>, <<97>>, <<98>>, <<32, 97>>, <<>>, <<>>>>,
   <<<<97>>, <<>>, <<98>>, <<>>, <<>>, <<>>>>}

\* The entries left in a dialog in SpecRaise: a complete record, and one
\* without an author.
RaiseRecords ==
  {<<<<97>>, <<97>>, <<98>>, <<>>, <<>>, <<>>>>,
   <<<<97>>, <<>>, <<98>>, <<>>, <<>>, <<>>>>}

\* The entries left in a dialog in SpecEntry: those of InputRecords, and a
\* record whose shelf is a single space.
EnteredRecords ==
  InputRecords \cup {<<<<32>>, <<97>>, <<98>>, <<>>, <<>>, <<>>>>}

\* The catalogue the program starts with: three books, two by the same
\* author; a search for 'a' finds the three, one for 'b' the first and the
\* third.
InitialBooks ==
  1 :> <<<<97>>, <<98>>, <<98>>, <<97>>, <<>>, <<>>>> @@
  2 :> <<<<97>>, <<261>>, <<97>>, <<>>, <<>>, <<98>>>> @@
  3 :> <<<<98>>, <<98>>, <<261>>, <<>>, <<>>, <<>>>>

\* The databases the program is started on: the catalogue, or its first two
\* books; the id of Books is declared INTEGER PRIMARY KEY (no sequence
\* kept) or AUTOINCREMENT (the sequence holds the largest id given).
Catalogues == {InitialBooks, [id \in {1, 2} |-> InitialBooks[id]]}

FtsOf(books) == [id \in DOMAIN books |-> MakeFtsContent(books[id], EmptyMap).out]

\* The state Application.__init__ leaves: every header armed ascending,
\* the sort state 'Author' ascending (lines 146-151), then SetTitle and
\* Select (lines 162-163): the search box is empty, the query matches no
\* record and no row is displayed.
Init ==
  /\ key = 0
  /\ ch = <<>>
  /\ text = <<>>
  /\ content = NoContent
  /\ out = <<>>
  /\ op = "init"
  /\ callers = NoCallers
  /\ Books \in Catalogues
  /\ sqlite_sequence \in {None, Some(MaxId(Books))}
  /\ fts_module \in FtsModules
  /\ BooksFTS = FtsOf(Books)
  /\ search_var = <<>>
  /\ title = Cardinality(DOMAIN Books)
  /\ dialogs = {}
  /\ LET constructed ==
           [last_search_var |-> None, tree_view |-> <<>>,
            heading |-> [c \in SortColumns |-> FALSE],
            clicked_column |-> "Author", reverse |-> FALSE,
            cache |-> EmptyMap, executed |-> FALSE, raised |-> FALSE]
     IN WindowIs(Select(constructed, <<>>, Books, BooksFTS, fts_module))

\* The Entry widget changes the text of the search box (typing, pasting).
EntryEdit(t) ==
  /\ t # search_var
  /\ search_var' = t
  /\ executed' = FALSE
  /\ UNCHANGED <<callers, sqlite_sequence, fts_module, key, ch, text, content,
                 out, op,
                 UNACCENTED, Books, BooksFTS,
                 last_search_var, tree_view, heading, clicked_column,
                 reverse, title, dialogs>>

\* Application.KeyPressed(event): Select runs when the key has a character.
KeyPressed(char) ==
  /\ IF char
       THEN SetWindow(Select(Window, search_var, Books, BooksFTS, fts_module))
       ELSE SetWindow([Window EXCEPT !.executed = FALSE])
  /\ UNCHANGED <<callers, sqlite_sequence, fts_module, key, ch, text, content,
                 out, op,
                 Books, BooksFTS, search_var,
                 title, dialogs>>

\* A click on the header of a column runs the command the header holds.
HeadingClick(column) ==
  /\ SetWindow([SortBy(Window, column, heading[column]) EXCEPT !.executed = FALSE])
  /\ UNCHANGED <<callers, sqlite_sequence, fts_module, key, ch, text, content,
                 out, op,
                 Books, BooksFTS, search_var,
                 title, dialogs>>

\* Application.Insert opens a dialog.
Insert ==
  /\ Cardinality(dialogs) < MaxDialogs
  /\ [kind |-> "Insert", id |-> 0] \notin dialogs
  /\ dialogs' = dialogs \cup {[kind |-> "Insert", id |-> 0]}
  /\ executed' = FALSE
  /\ UNCHANGED <<callers, sqlite_sequence, fts_module, key, ch, text, content,
                 out, op,
                 UNACCENTED, Books, BooksFTS,
                 search_var, last_search_var, tree_view, heading,
                 clicked_column, reverse, title>>

\* Application.Edit / Delete with row i of the tree view selected open a
\* dialog that keeps the values of the row (without a selection they
\* return at once).
EditOrDelete(kind, i) ==
  /\ Cardinality(dialogs) < MaxDialogs
  /\ i \in 1..Len(tree_view)
  /\ [kind |-> kind, id |-> tree_view[i][1]] \notin dialogs
  /\ dialogs' = dialogs \cup {[kind |-> kind, id |-> tree_view[i][1]]}
  /\ executed' = FALSE
  /\ UNCHANGED <<callers, sqlite_sequence, fts_module, key, ch, text, content,
                 out, op,
                 UNACCENTED, Books, BooksFTS,
                 search_var, last_search_var, tree_view, heading,
                 clicked_column, reverse, title>>

\* The Skip button or Escape: dialog.destroy.
Skip(d) ==
  /\ d \in dialogs
  /\ dialogs' = dialogs \ {d}
  /\ executed' = FALSE
  /\ UNCHANGED <<callers, sqlite_sequence, fts_module, key, ch, text, content,
                 out, op,
                 UNACCENTED, Books, BooksFTS,
                 search_var, last_search_var, tree_view, heading,
                 clicked_column, reverse, title>>

\* The state after Finalize, w being the window state its Select leaves:
\* the tables as committed, and the dialog destroyed unless Select raised
\* (line 222 follows the call of line 221).
Finalized(d, books, fts, w) ==
  /\ Books' = books
  /\ BooksFTS' = fts
  /\ SetWindow(w)
  /\ dialogs' = IF w.raised THEN dialogs ELSE dialogs \ {d}

\* A variant of Commit that writes Books and leaves BooksFTS as it was.
CommitBooksOnly(d, books, fts, cache) ==
  Finalized(d, books, BooksFTS,
            Finalize([Window EXCEPT !.cache = cache], search_var, books,
                     BooksFTS, fts_module))

\* The tables are written, then Finalize: commit, the memo reset, Select,
\* dialog.destroy; when Select raises the dialog stays open.
Commit(d, books, fts, cache) ==
  Finalized(d, books, fts,
            Finalize([Window EXCEPT !.cache = cache], search_var, books, fts,
                     fts_module))

\* InsertBook of an Insert dialog whose entries hold e; SetTitle runs
\* when Finalize returns (line 275).
InsertBook(d, e) ==
  /\ d \in dialogs /\ d.kind = "Insert"
  /\ IF ~RequiredFilled(e)
       THEN /\ executed' = FALSE
            /\ UNCHANGED <<UNACCENTED, Books, BooksFTS, last_search_var,
                           tree_view, heading, clicked_column, reverse,
                           title, dialogs, sqlite_sequence>>
       ELSE LET id == NewId(Books, sqlite_sequence)
                f == MakeFtsContent(Normalized(e), UNACCENTED)
            IN /\ id <= MaxBooks
               /\ Commit(d, Books @@ (id :> Normalized(e)),
                         BooksFTS @@ (id :> f.out), f.cache)
               /\ sqlite_sequence' =
                    IF sqlite_sequence = None THEN None ELSE Some(id)
               /\ title' = IF Raises(search_var, f.cache, fts_module)
                             THEN title
                             ELSE Cardinality(DOMAIN Books) + 1
  /\ UNCHANGED <<callers, fts_module, key, ch, text, content, out, op,
                 search_var>>

\* UpdateBook of an Edit dialog whose entries hold e.
UpdateBook(d, e) ==
  /\ d \in dialogs /\ d.kind = "Edit"
  /\ IF ~RequiredFilled(e)
       THEN /\ executed' = FALSE
            /\ UNCHANGED <<UNACCENTED, Books, BooksFTS, last_search_var,
                           tree_view, heading, clicked_column, reverse,
                           dialogs>>
       ELSE LET f == MakeFtsContent(e, UNACCENTED)
            IN Commit(d,
                 [i \in DOMAIN Books |-> IF i = d.id THEN e ELSE Books[i]],
                 [i \in DOMAIN BooksFTS |-> IF i = d.id THEN f.out ELSE BooksFTS[i]],
                 f.cache)
  /\ UNCHANGED <<callers, sqlite_sequence, fts_module, key, ch, text, content,
                 out, op,
                 search_var, title>>

\* DeleteBook of a Delete dialog; SetTitle runs when Finalize returns
\* (line 335).
DeleteBook(d) ==
  /\ d \in dialogs /\ d.kind = "Delete"
  /\ Commit(d, [i \in DOMAIN Books \ {d.id} |-> Books[i]],
            [i \in DOMAIN BooksFTS \ {d.id} |-> BooksFTS[i]], UNACCENTED)
  /\ title' = IF Raises(search_var, UNACCENTED, fts_module)
                 THEN title
                 ELSE Cardinality(DOMAIN Books \ {d.id})
  /\ UNCHANGED <<callers, sqlite_sequence, fts_module, key, ch, text, content,
                 out, op,
                 search_var>>

\* SpecSort: the user searches and sorts, and opens no dialog.
NextSort ==
  \/ \E t \in SearchTexts : EntryEdit(t)
  \/ \E char \in BOOLEAN : KeyPressed(char)
  \/ \E column \in SortColumns : HeadingClick(column)

SpecSort == Init /\ [][NextSort]_vars

\* Spec: the whole application, dialogs included; the user types the texts
\* TypedTexts and clicks the headers ClickedColumns.
Next ==
  \/ \E t \in TypedTexts : EntryEdit(t)
  \/ \E char \in BOOLEAN : KeyPressed(char)
  \/ \E column \in ClickedColumns : HeadingClick(column)
  \/ Insert
  \/ \E kind \in {"Edit", "Delete"}, i \in 1..MaxBooks : EditOrDelete(kind, i)
  \/ \E d \in dialogs : Skip(d)
  \/ \E d \in dialogs, e \in InputRecords : InsertBook(d, e)
  \/ \E d \in dialogs, e \in InputRecords : UpdateBook(d, e)
  \/ \E d \in dialogs : DeleteBook(d)

Spec == Init /\ [][Next]_vars

\* SpecEntry: the user searches, with the rows sorted by author as at the
\* start, and works with the dialogs, in which the entries of
\* EnteredRecords are left.
NextEntry ==
  \/ \E t \in TypedTexts : EntryEdit(t)
  \/ \E char \in BOOLEAN : KeyPressed(char)
  \/ Insert
  \/ \E kind \in {"Edit", "Delete"}, i \in 1..MaxBooks : EditOrDelete(kind, i)
  \/ \E d \in dialogs : Skip(d)
  \/ \E d \in dialogs, e \in EnteredRecords : InsertBook(d, e)
  \/ \E d \in dialogs, e \in EnteredRecords : UpdateBook(d, e)
  \/ \E d \in dialogs : DeleteBook(d)

SpecEntry == Init /\ [][NextEntry]_vars

\* SpecRaise: the user searches, for a text whose query raises among
\* others, and works with the dialogs, none of which is skipped.
NextRaise ==
  \/ \E t \in RaisingTexts : EntryEdit(t)
  \/ \E char \in BOOLEAN : KeyPressed(char)
  \/ Insert
  \/ \E kind \in {"Edit", "Delete"}, i \in 1..MaxBooks : EditOrDelete(kind, i)
  \/ \E d \in dialogs, e \in RaiseRecords : InsertBook(d, e)
  \/ \E d \in dialogs, e \in RaiseRecords : UpdateBook(d, e)
  \/ \E d \in dialogs : DeleteBook(d)

SpecRaise == Init /\ [][NextRaise]_vars

(***************************************************************************)
(* Reference definitions the properties are stated with.                   *)
(***************************************************************************)
\* Fold(c) of the specification: what a lookup of c returns in a process
\* that has not seen c before.
Fold(c) == GetItem(EmptyMap, c).ch

\* FoldText(s): Fold applied to every character, results concatenated.
RECURSIVE FoldText(_)
FoldText(s) == IF s = <<>> THEN <<>> ELSE Fold(Head(s)) \o FoldText(Tail(s))

\* The base character (first component) of the canonical decomposition of
\* the model's canonically decomposable characters.
CanonicalBase ==
  233 :> 101 @@   \* e acute -> e
  261 :> 97 @@    \* a ogonek -> a
  220 :> 85 @@    \* U diaeresis -> U
  471 :> 220 @@   \* U diaeresis acute -> U diaeresis
  508 :> 198      \* AE acute -> AE

\* The first character of the compatibility (tagged) decomposition of the
\* model's characters that have one.
CompatibilityFirst ==
  160 :> 32 @@    \* no-break space -> space
  306 :> 73 @@    \* ligature IJ -> I
  170 :> 97       \* feminine ordinal -> a

IsLookup == op \in {"hit", "miss"}

\* The tokens of s, stated by position: token number n starts at the n-th
\* position that holds a non-space and follows a space or the start, and
\* runs to the last non-space before the next space or the end.
TokenStarts(s) ==
  {i \in 1..Len(s) : ~IsSpace(s[i]) /\ (i = 1 \/ IsSpace(s[i - 1]))}

TokenEnd(s, i) ==
  CHOOSE j \in i..Len(s) :
    /\ \A m \in i..j : ~IsSpace(s[m])
    /\ (j = Len(s) \/ IsSpace(s[j + 1]))

\* The starred tokens from position `from` on, joined by single spaces.
RECURSIVE StarredTokensFrom(_, _)
StarredTokensFrom(s, from) ==
  LET starts == {i \in TokenStarts(s) : i >= from}
  IN IF starts = {} THEN <<>>
     ELSE LET i == CHOOSE x \in starts : \A y \in starts : x <= y
              j == TokenEnd(s, i)
              more == StarredTokensFrom(s, j + 1)
          IN SubSeq(s, i, j) \o <<42>>
               \o (IF more = <<>> THEN <<>> ELSE <<32>> \o more)

\* The four indexed fields joined: a non-empty field is appended, after a
\* space when something precedes it.
RECURSIVE JoinedFields(_, _)
JoinedFields(fields, acc) ==
  IF fields = <<>> THEN acc
  ELSE JoinedFields(Tail(fields),
         IF Head(fields) = <<>> THEN acc
         ELSE IF acc = <<>> THEN Head(fields)
         ELSE acc \o <<32>> \o Head(fields))

(***************************************************************************)
(* Properties of the folding table and the text functions.                 *)
(***************************************************************************)
\* C1 (as claimed): folding is idempotent, a text that was folded is
\* returned unchanged when it is folded again.  Checked under SpecText.
C1_FoldTextIdempotent == op = "refolded" => out = text

\* C2 (as claimed): a lookup resolves in the order override table,
\* decomposition, identity: a key of the table gets its entry whether or
\* not it has a decomposition, a key outside the table that has a
\* decomposition gets its first decomposed character, and the key itself
\* is returned only when it is outside the table and has no decomposition.
\* Checked under SpecFold.
C2_TableDecompositionIdentity ==
  IsLookup =>
    /\ key \in DOMAIN CHAR_REPLACEMENT => ch = CHAR_REPLACEMENT[key]
    /\ (key \notin DOMAIN CHAR_REPLACEMENT /\ Decomposition(key) # <<>>)
         => ch = <<(CanonicalBase @@ CompatibilityFirst)[key]>>
    /\ ch = <<key>>
         => (key \notin DOMAIN CHAR_REPLACEMENT /\ Decomposition(key) = <<>>)

\* C2 (amended): no key of the override table has a decomposition, and
\* each gets its entry; a key outside the table with a canonical (untagged)
\* decomposition gets its first decomposed character; the key itself is
\* returned exactly when it is outside the table and its decomposition is
\* absent or tagged.
C2_ResolutionOrder ==
  IsLookup =>
    /\ key \in DOMAIN CHAR_REPLACEMENT
         => (Decomposition(key) = <<>> /\ ch = CHAR_REPLACEMENT[key])
    /\ (/\ key \notin DOMAIN CHAR_REPLACEMENT
        /\ Decomposition(key) # <<>>
        /\ Head(Decomposition(key)) # 60)     \* '<'
         => ch = <<CanonicalBase[key]>>
    /\ ch = <<key>>
         <=> (/\ key \notin DOMAIN CHAR_REPLACEMENT
              /\ \/ Decomposition(key) = <<>>
                 \/ Head(Decomposition(key)) = 60)

\* C2 witness: the first lookup of the no-break space, which has the
\* tagged decomposition "<noBreak> 0020" and is no key of the table,
\* returned the key itself, after the lookup of L with stroke returned
\* the entry 'L' of the table.
C2_Witness ==
  /\ op = "miss" /\ key = 160 /\ ch = <<160>>
  /\ Decomposition(160) # <<>> /\ 160 \notin DOMAIN CHAR_REPLACEMENT
  /\ 321 \in DOMAIN UNACCENTED /\ UNACCENTED[321] = <<76>>

\* C3: the known mappings, on a fresh or a warm table: AE -> "AE",
\* sharp s -> "ss", e acute -> "e", 'a' -> "a"; every key of the override
\* table folds to its entry, every canonically decomposed letter to its
\* base, every ASCII character to itself.  Checked under SpecFold.
C3_KnownMappings ==
  IsLookup =>
    /\ key = 198 => ch = <<65, 69>>
    /\ key = 223 => ch = <<115, 115>>
    /\ key = 233 => ch = <<101>>
    /\ key = 97 => ch = <<97>>
    /\ key \in DOMAIN CHAR_REPLACEMENT => ch = CHAR_REPLACEMENT[key]
    /\ key \in DOMAIN CanonicalBase => ch = <<CanonicalBase[key]>>
    /\ key < 128 => ch = <<key>>

\* C3 witness: e acute looked up in a warm table that holds it.
C3_Witness ==
  op = "hit" /\ key = 233 /\ ch = <<101>> /\ 198 \in DOMAIN UNACCENTED

\* C4 (as claimed): a key outside the override table that has a
\* decomposition, canonical or tagged, folds to the first decomposed
\* character.  Checked under SpecFold.
C4_FirstDecomposedAlways ==
  (IsLookup /\ key \notin DOMAIN CHAR_REPLACEMENT /\ Decomposition(key) # <<>>)
    => ch = <<(CanonicalBase @@ CompatibilityFirst)[key]>>

\* C4 (amended): a key outside the override table with a canonical
\* (untagged) decomposition folds to the first decomposed character; one
\* with a tagged compatibility decomposition folds to itself.
C4_FirstDecomposedCanonical ==
  (IsLookup /\ key \notin DOMAIN CHAR_REPLACEMENT /\ Decomposition(key) # <<>>)
    => IF Head(Decomposition(key)) = 60      \* '<'
         THEN ch = <<key>>
         ELSE ch = <<CanonicalBase[key]>>

\* C4 witness: both cases were looked up, a tagged and a canonical one.
C4_Witness ==
  /\ IsLookup
  /\ key = 306 /\ ch = <<306>>
  /\ 471 \in DOMAIN UNACCENTED /\ UNACCENTED[471] = <<220>>

\* C5: the query expression Select builds from the raw text is FoldText of
\* the whitespace-separated non-empty tokens, each followed by '*', joined
\* by single spaces; a raw text with no token gives the empty expression.
\* Checked under SpecText.
C5_QueryExpression ==
  op = "query" =>
    /\ out = FoldText(StarredTokensFrom(text, 1))
    /\ (\A i \in 1..Len(text) : IsSpace(text[i])) => out = <<>>

\* C5 witness: two tokens separated by two spaces ("a  e-acute" gives
\* "a* e*").
C5_Witness ==
  op = "query" /\ text = <<97, 32, 32, 233>> /\ out = <<97, 42, 32, 101, 42>>

\* C6: MakeFtsContent is FoldText of the non-empty values among author,
\* title, translator, original_title, in that order, joined by single
\* spaces; shelf and borrowed do not contribute.  Checked under SpecText.
C6_IndexedContent ==
  op = "fts" =>
    out = FoldText(JoinedFields(
            <<content[2], content[3], content[4], content[5]>>, <<>>))

\* C6 witness: author and title, no translator, an original title, with a
\* shelf and a borrower that do not appear.
C6_Witness ==
  /\ op = "fts"
  /\ content = <<<<97>>, <<233>>, <<97>>, <<>>, <<223, 32, 97>>, <<233>>>>
  /\ out = <<101, 32, 97, 32, 115, 115, 32, 97>>

\* C9: the folding table is a monotone memo: an entry is never removed nor
\* changed, and every lookup returns the entry the table holds for its key,
\* which is the one its first lookup wrote.  Checked under SpecFold.
C9_CacheMonotone ==
  [][/\ \A c \in DOMAIN UNACCENTED :
          c \in DOMAIN UNACCENTED' /\ UNACCENTED'[c] = UNACCENTED[c]
     /\ op' \in {"hit", "miss"} =>
          (key' \in DOMAIN UNACCENTED' /\ ch' = UNACCENTED'[key'])
     /\ (op' \in {"hit", "miss"} /\ key' \in DOMAIN UNACCENTED) =>
          ch' = UNACCENTED[key']]_vars

\* C9 witness: a repeated lookup answered from a table with two entries.
C9_Witness ==
  op = "hit" /\ key = 508 /\ ch = <<198>> /\ Cardinality(DOMAIN UNACCENTED) = 2

\* The characters int(tok, 16) accepts in a token: 0-9, A-F, a-f.
HexCharacters == (48..57) \cup (65..70) \cup (97..102)

\* The first whitespace-separated token of a string that has one.
FirstToken(s) ==
  LET i == CHOOSE x \in TokenStarts(s) : \A y \in TokenStarts(s) : x <= y
  IN SubSeq(s, i, TokenEnd(s, i))

\* The decomposition data of c is absent, or its first token is not a
\* hexadecimal number.
AbsentOrMalformed(c) ==
  \/ Decomposition(c) = <<>>
  \/ TokenStarts(Decomposition(c)) = {}
  \/ \E i \in 1..Len(FirstToken(Decomposition(c))) :
       FirstToken(Decomposition(c))[i] \notin HexCharacters

\* C12: a lookup never fails: whatever the key, it returns a non-empty
\* string of codepoints (no failure value) and the table holds that string for the key
\* afterwards; for a key outside the override table whose decomposition is
\* absent or does not start with a hexadecimal token, the string is the key
\* itself.  Checked under SpecFold.
C12_FoldTotal ==
  IsLookup =>
    /\ ch # <<>> /\ \A i \in 1..Len(ch) : ch[i] \in Nat
    /\ key \in DOMAIN UNACCENTED /\ UNACCENTED[key] = ch
    /\ (AbsentOrMalformed(key) /\ key \notin DOMAIN CHAR_REPLACEMENT)
         => ch = <<key>>

\* C12 witness: the first lookup of the feminine ordinal, whose
\* decomposition starts with '<super>', returned the key and stored it,
\* after the lookup of a character without decomposition data.
C12_Witness ==
  /\ op = "miss" /\ key = 170 /\ ch = <<170>>
  /\ AbsentOrMalformed(170) /\ Decomposition(170) # <<>>
  /\ 170 \in DOMAIN UNACCENTED /\ UNACCENTED[170] = <<170>>
  /\ 98 \in DOMAIN UNACCENTED /\ UNACCENTED[98] = <<98>>

\* The tokens of s from position `from` on, as a sequence.
RECURSIVE TokensFrom(_, _)
TokensFrom(s, from) ==
  LET starts == {i \in TokenStarts(s) : i >= from}
  IN IF starts = {} THEN <<>>
     ELSE LET i == CHOOSE x \in starts : \A y \in starts : x <= y
          IN <<SubSeq(s, i, TokenEnd(s, i))>> \o TokensFrom(s, TokenEnd(s, i) + 1)

\* How many characters of s are in the set S.
Count(s, S) == Cardinality({i \in 1..Len(s) : s[i] \in S})

\* C14: the wildcard markers survive folding: a raw text of n tokens gives
\* a query of exactly n terms, the i-th being the folded i-th token followed
\* by the '*' appended to it; the terms are separated by n - 1 single spaces
\* and the query holds no other whitespace; the query holds one '*' per
\* token beside those the user typed, so folding neither drops nor
\* introduces one.  Checked under SpecText.
C14_WildcardsSurvive ==
  op = "query" =>
    LET raw == TokensFrom(text, 1)
        terms == TokensFrom(out, 1)
        n == Len(raw)
    IN /\ Len(terms) = n
       /\ \A i \in 1..n : terms[i] = FoldText(raw[i]) \o <<42>>
       /\ Count(out, WhiteSpace) = (IF n = 0 THEN 0 ELSE n - 1)
       /\ Count(out, {32}) = Count(out, WhiteSpace)
       /\ Count(out, {42}) = n + Count(text, {42})

\* C14 witness: "sharp-s*", a no-break space, "e-acute": two tokens, one
\* with a '*' of its own and a letter that folds to two, give "ss** e*".
C14_Witness ==
  /\ op = "query"
  /\ text = <<223, 42, 160, 233>>
  /\ out = <<115, 115, 42, 42, 32, 101, 42>>

\* What two lookups give when one runs after the other has returned, from
\* the empty table: the two values and the table left.
SequentialRun(k1, k2) ==
  LET a == GetItem(EmptyMap, k1)
      b == GetItem(a.cache, k2)
  IN [first |-> a.ch, second |-> b.ch, cache |-> b.cache]

\* C13: races on the table are harmless: however the steps of two threads
\* that look up the same or different codepoints interleave, each thread
\* returns the value a sequential lookup returns, and once both have
\* returned the table is the one the two lookups leave when they run one
\* after the other, in either order.  Checked under SpecRace.
C13_RaceHarmless ==
  /\ \A t \in Callers :
       callers[t].pc = "done" => callers[t].ch = Fold(callers[t].key)
  /\ (\A t \in Callers : callers[t].pc = "done") =>
       LET s12 == SequentialRun(callers[1].key, callers[2].key)
           s21 == SequentialRun(callers[2].key, callers[1].key)
       IN /\ UNACCENTED = s12.cache /\ UNACCENTED = s21.cache
          /\ callers[1].ch = s12.first /\ callers[2].ch = s12.second
          /\ callers[2].ch = s21.first /\ callers[1].ch = s21.second

\* C13 witness: both threads missed AE acute, both computed and stored the
\* entry, and both have returned.
C13_Witness ==
  /\ \A t \in Callers :
       /\ callers[t].pc = "done" /\ callers[t].via = "store"
       /\ callers[t].key = 508 /\ callers[t].ch = <<198>>
  /\ UNACCENTED = 508 :> <<198>>

(***************************************************************************)
(* Properties of the Application.                                          *)
(***************************************************************************)
\* A step that changes a header command is a click on a header: Select
\* re-arms the header of clicked_column with the value it holds.
HeaderClicked == heading' # heading

\* C7 (as claimed): a click on the column sorted last sorts it in the
\* opposite direction, a click on any other column sorts that column
\* ascending.  Checked under SpecSort.
C7_SortToggle ==
  [][HeaderClicked =>
       IF clicked_column' = clicked_column
         THEN reverse' = ~reverse
         ELSE reverse' = FALSE]_vars

RowKey(row, column) == Strxfrm(CellValue(row, column))

PositionIn(rows, row) == CHOOSE i \in 1..Len(rows) : rows[i] = row

\* after holds the rows of before, ordered by the key of column
\* (descending with rev), rows of equal key in the order they had in before.
StablySorted(before, after, column, rev) ==
  /\ Len(after) = Len(before)
  /\ {after[i] : i \in 1..Len(after)} = {before[i] : i \in 1..Len(before)}
  /\ \A i, j \in 1..Len(after) :
       i < j =>
         LET ki == RowKey(after[i], column)
             kj == RowKey(after[j], column)
         IN /\ IF rev THEN ~KeyLess(ki, kj) ELSE ~KeyLess(kj, ki)
            /\ ki = kj => PositionIn(before, after[i]) < PositionIn(before, after[j])

\* C8: SortBy is a stable sort in both directions: a click on a header
\* leaves the rows ordered by the collation key of the column, ascending or
\* descending, and rows of equal key in the relative order they had before
\* the click.  Checked under SpecSort.
C8_StableSort ==
  [][HeaderClicked =>
       StablySorted(tree_view, tree_view', clicked_column', reverse')]_vars

\* C8 witness: sorted by author descending after a sort by title: the two
\* books of author 'b' stand in their title order (3 before 1), before the
\* book of the a-ogonek author.
C8_Witness ==
  /\ clicked_column = "Author" /\ reverse
  /\ heading["Title"]
  /\ [i \in 1..Len(tree_view) |-> tree_view[i][1]] = <<3, 1, 2>>

\* The step is a write by dialog d that passed the check of the required
\* entries: InsertBook or UpdateBook of d with entries e, or DeleteBook
\* of d.
WriteBy(d) ==
  \/ DeleteBook(d)
  \/ \E e \in InputRecords \cup RaiseRecords :
       RequiredFilled(e) /\ (InsertBook(d, e) \/ UpdateBook(d, e))

\* The step is such a write by one of the dialogs.
SuccessfulWrite == \E d \in dialogs : WriteBy(d)

\* C10: the query is memoized on the raw text: a step that is no write runs
\* the search only when the text of the search box differs from
\* last_search_var, and a key press with the text unchanged leaves
\* last_search_var, the rows, their order and the sort state as they are;
\* so it is with a text whose query raised, which is not asked again.
\* Checked under SpecRaise.
C10_QueryMemo ==
  [][/\ (executed' /\ ~SuccessfulWrite)
          => (Some(search_var') # last_search_var
                /\ last_search_var' = Some(search_var'))
     /\ (Some(search_var) = last_search_var /\ search_var' = search_var
           /\ ~HeaderClicked /\ dialogs' = dialogs /\ ~SuccessfulWrite)
          => (/\ ~executed'
              /\ last_search_var' = last_search_var
              /\ tree_view' = tree_view
              /\ clicked_column' = clicked_column
              /\ reverse' = reverse)]_vars

\* C10 witness: after an update, '"a' was typed over 'a' and a key pressed
\* twice: the query raised the first time, the text equals the memo, the
\* last operation did not run the query and the rows of 'a' are displayed.
C10_Witness ==
  /\ 1 \in DOMAIN Books /\ Books[1][2] = <<97>>
  /\ search_var = <<34, 97>> /\ last_search_var = Some(<<34, 97>>)
  /\ ~executed
  /\ Len(tree_view) >= 2
  /\ dialogs = {}

\* The rows in the opposite order.
ReverseOf(rows) == [i \in 1..Len(rows) |-> rows[Len(rows) + 1 - i]]

\* No two rows have the same collation key in column.
DistinctKeys(rows, column) ==
  \A i, j \in 1..Len(rows) :
    i # j => RowKey(rows[i], column) # RowKey(rows[j], column)

\* C11: when the rows stand sorted ascending by a column in which their keys
\* are pairwise distinct, the next click on the header of that column, which
\* sorts it descending, leaves exactly the reverse of the ascending
\* sequence.  Checked under SpecSort.
C11_ToggleReverses ==
  [][(/\ HeaderClicked
      /\ clicked_column' = clicked_column
      /\ ~reverse /\ reverse'
      /\ DistinctKeys(tree_view, clicked_column))
       => tree_view' = ReverseOf(tree_view)]_vars

\* C11 witness: the three books, of pairwise distinct titles, sorted by
\* title descending after the ascending sort armed the header: 'b' (1),
\* a-ogonek (3), 'a' (2).
C11_Witness ==
  /\ clicked_column = "Title" /\ reverse /\ ~heading["Title"]
  /\ DistinctKeys(tree_view, "Title")
  /\ [i \in 1..Len(tree_view) |-> tree_view[i][1]] = <<1, 3, 2>>

\* C15: the store and the index are consistent after every committed
\* write: BooksFTS has a row for exactly the ids of Books, and the content
\* of each is the folded join of the non-empty values among author, title,
\* translator and original_title the Books row holds now.  Checked under
\* Spec.
C15_StoreIndexConsistent ==
  /\ DOMAIN BooksFTS = DOMAIN Books
  /\ \A id \in DOMAIN Books :
       BooksFTS[id] =
         FoldText(JoinedFields(<<Books[id][2], Books[id][3], Books[id][4],
                                 Books[id][5]>>, <<>>))

\* C15 witness: after a delete, an insert and an update: two books are
\* left, one inserted by author 'a' with its translator normalized to 'a',
\* one updated with the translator ' a' as typed and indexed as 'a b  a'.
C15_Witness ==
  /\ Cardinality(DOMAIN Books) = 2
  /\ DOMAIN BooksFTS = DOMAIN Books
  /\ \E id \in DOMAIN Books : Books[id][2] = <<97>> /\ Books[id][4] = <<97>>
  /\ \E id \in DOMAIN Books :
       /\ Books[id][4] = <<32, 97>>
       /\ BooksFTS[id] = <<97, 32, 98, 32, 32, 97>>

\* The row the tree view shows for the book id of a Books table.
RowOf(books, id) ==
  <<id, books[id][1], books[id][2], books[id][3], books[id][6],
    books[id][4], books[id][5]>>

\* Every row is the row of a book of the table, as the table holds it,
\* and no book has two rows.
ShowsBooks(rows, books) ==
  /\ \A i \in 1..Len(rows) :
       rows[i][1] \in DOMAIN books /\ rows[i] = RowOf(books, rows[i][1])
  /\ \A i, j \in 1..Len(rows) : i # j => rows[i][1] # rows[j][1]

OrderedBy(rows, column, rev) ==
  \A i, j \in 1..Len(rows) :
    i < j =>
      IF rev THEN ~KeyLess(RowKey(rows[i], column), RowKey(rows[j], column))
      ELSE ~KeyLess(RowKey(rows[j], column), RowKey(rows[i], column))

\* C17: a refresh keeps the sort state: a step that runs the search query
\* changes neither clicked_column nor reverse and leaves the new rows
\* ordered by that column in that direction; and in every state the
\* header of clicked_column holds the command that sorts in the direction
\* opposite to reverse.  Checked under Spec.
C17_RefreshKeepsSort ==
  [][/\ executed' =>
          /\ clicked_column' = clicked_column
          /\ reverse' = reverse
          /\ OrderedBy(tree_view', clicked_column, reverse)
     /\ heading[clicked_column] = ~reverse
     /\ heading'[clicked_column'] = ~reverse']_vars

\* C17 witness: the catalogue sorted by id descending, then searched
\* again: the query ran and the three rows it returned by ascending id
\* stand by id descending, the header of 'ID' armed for ascending.
C17_Witness ==
  /\ executed
  /\ clicked_column = "ID" /\ reverse /\ ~heading["ID"]
  /\ Len(tree_view) = 3
  /\ RowKey(tree_view[1], "ID") # RowKey(tree_view[3], "ID")
  /\ OrderedBy(tree_view, "ID", TRUE)

\* One of the entries shelf, author, title is empty.
EmptyRequired(e) == \E c \in 1..3 : Len(e[c]) = 0

\* C18 (as claimed): InsertBook and UpdateBook of a dialog in which the
\* shelf, the author or the title is empty change neither Books, BooksFTS,
\* last_search_var nor the rows displayed and leave the dialog open; and
\* every record a step adds to Books or changes in it has a non-empty shelf,
\* author and title.  Checked under SpecEntry.
C18_RequiredEntries ==
  [][/\ \A d \in dialogs, e \in EnteredRecords :
          (EmptyRequired(e) /\ (InsertBook(d, e) \/ UpdateBook(d, e)))
            => UNCHANGED <<Books, BooksFTS, last_search_var, tree_view, dialogs>>
     /\ \A id \in DOMAIN Books' :
          (id \notin DOMAIN Books \/ Books'[id] # Books[id])
            => ~EmptyRequired(Books'[id])]_vars

====
